---- MODULE Spec2Model ----
(***************************************************************************)
(* Two programs of the repository are modelled here.                       *)
(*                                                                         *)
(*  - GtkWindowButtonsQuartz (gtkwindowbuttonsquartz.c): the widget that   *)
(*    asks a macOS surface to draw the native close/minimize/maximize      *)
(*    buttons.  Specification: Spec.                                       *)
(*  - The Lists/Settings demo (listview_settings.c): the single demo       *)
(*    window, the editable value cell and the search filter.               *)
(*    Specification: DemoSpec.                                             *)
(*                                                                         *)
(* Calls that leave the widget (the GdkMacosSurface API and the chained-up *)
(* GtkWidget class methods) are recorded, in program order, in `calls`.    *)
(***************************************************************************)
EXTENDS Integers, Sequences, FiniteSets, TLC

VARIABLES
  \* ---- GtkWindowButtonsQuartz -------------------------------------------
  close, minimize, maximize, \* struct _GtkWindowButtonsQuartz fields
  ctor,                      \* the values given to g_object_new (history)
  surface,                   \* kind of gtk_native_get_surface (root)
  realized,                  \* GtkWidget: between base realize and unrealize
  height,                    \* GtkWidget: gtk_widget_get_height (widget)
  controlsShown,             \* surface: native controls currently granted
  calls,                     \* every outgoing call, in program order
  ops,                       \* lifecycle callbacks run so far (history)
  mark,                      \* Len(calls) when the last callback started
  out,                       \* out-parameter of the last query operation
  \* ---- Lists/Settings demo ----------------------------------------------
  window,                    \* static GtkWidget *window (NULL or an object)
  live,                      \* the demo windows that exist
  visible,                   \* the demo windows that are visible
  nbuilt,                    \* windows built so far (names the next object)
  ncalls,                    \* calls of do_listview_settings so far
  ret,                       \* what the last do_listview_settings returned
  editing,                   \* GtkEditableLabel:editing of the value cell
  text,                      \* gtk_editable_get_text of the value cell
  stored,                    \* the key's value in GSettings
  nchanged,                  \* runs of item_value_changed so far
  bells,                     \* gtk_widget_error_bell calls so far
  setCalls,                  \* values handed to g_settings_set_value
  entryText,                 \* gtk_editable_get_text of the search entry
  current_filter,            \* static GtkFilter *current_filter
  filterSearch               \* gtk_string_filter_get_search (current_filter)

wvars == <<close, minimize, maximize, ctor, surface, realized, height,
           controlsShown, calls, ops, mark, out>>

winvars == <<window, live, visible, nbuilt, ncalls, ret>>

cellvars == <<editing, text, stored, nchanged, bells, setCalls>>

searchvars == <<entryText, current_filter, filterSearch>>

dvars == <<winvars, cellvars, searchvars>>

vars == <<wvars, dvars>>

\* ---- bounds -------------------------------------------------------------
\* number of lifecycle callbacks (realize, size_allocate, unrealize) explored
MaxOps == 4

\* number of calls of do_listview_settings explored
MaxCalls == 3

\* number of runs of item_value_changed explored
MaxChanges == 2

\* heights handed to size_allocate
Heights == {0, 30, 44, 50}

\* what gtk_native_get_surface can return: a GdkMacosSurface or anything else
SurfaceKinds == {"macos", "other"}

Props == {"close", "minimize", "maximize"}

\* ---- the outgoing calls -------------------------------------------------
ShowCall(b)         == <<"showWindowControls", b>>
EnableCall(c, m, x) == <<"enableWindowControls", c, m, x>>
HeightCall(h)       == <<"setWindowControlsHeight", h>>
BaseRealize         == <<"base_realize">>
BaseUnrealize       == <<"base_unrealize">>
BaseSizeAllocate(h) == <<"base_size_allocate", h>>

SurfaceCallNames ==
  {"showWindowControls", "enableWindowControls", "setWindowControlsHeight"}

GDK_IS_MACOS_SURFACE(s) == s = "macos"

\* gdk_macos_surface_show_window_controls: the new "shown" state of the
\* surface; `granted` is what the surface answers to a request to show.
show_window_controls(show, granted) == IF show THEN granted ELSE FALSE

\* ---- properties ---------------------------------------------------------
get_property(prop) ==
  CASE prop = "close"    -> close
    [] prop = "minimize" -> minimize
    [] prop = "maximize" -> maximize

\* the three fields after set_property (prop, v)
set_property(prop, v) ==
  CASE prop = "close"    -> <<v, minimize, maximize>>
    [] prop = "minimize" -> <<close, v, maximize>>
    [] prop = "maximize" -> <<close, minimize, v>>

ConstructOnlySlip(prop) == prop # "maximize"

\* class_init: every property is installed G_PARAM_CONSTRUCT_ONLY
ParamConstructOnly(prop) == prop \in {"close", "minimize", "maximize"}

\* measure: *minimum = *natural
measure(orientation) ==
  CASE orientation = "vertical"   -> 28
    [] orientation = "horizontal" -> 60

\* ---- the surface calls each callback makes ------------------------------
HeightNoGuard(s, h) ==
  IF GDK_IS_MACOS_SURFACE(s) THEN <<HeightCall(h)>> ELSE <<>>

update_native_window_buttons_height(s, h) ==
  IF GDK_IS_MACOS_SURFACE(s)
    THEN IF h > 0 THEN <<HeightCall(h)>> ELSE <<>>
    ELSE <<>>

RealizeSwappedFlags(s, granted) ==
  IF GDK_IS_MACOS_SURFACE(s)
    THEN <<ShowCall(TRUE)>> \o
         (IF granted THEN <<EnableCall(close, maximize, minimize)>> ELSE <<>>)
    ELSE <<>>

RealizeEnableAlways(s, granted) ==
  IF GDK_IS_MACOS_SURFACE(s)
    THEN <<ShowCall(TRUE), EnableCall(close, minimize, maximize)>>
    ELSE <<>>

RealizeNoTypeCheck(s, granted) ==
  <<ShowCall(TRUE)>> \o
  (IF granted THEN <<EnableCall(close, minimize, maximize)>> ELSE <<>>)

\* the part of realize after the chain-up
realize_surface_calls(s, granted) ==
  IF GDK_IS_MACOS_SURFACE(s)
    THEN <<ShowCall(TRUE)>> \o
         (IF granted THEN <<EnableCall(close, minimize, maximize)>> ELSE <<>>)
    ELSE <<>>

UnrealizeOnlyIfShown(s) ==
  IF GDK_IS_MACOS_SURFACE(s) /\ controlsShown
    THEN <<ShowCall(FALSE), BaseUnrealize>>
    ELSE <<BaseUnrealize>>

UnrealizeBaseFirst(s) ==
  IF GDK_IS_MACOS_SURFACE(s)
    THEN <<BaseUnrealize, ShowCall(FALSE)>>
    ELSE <<BaseUnrealize>>

UnrealizeNoHide(s) == <<BaseUnrealize>>

\* unrealize: the surface call, then the chain-up
unrealize_calls(s) ==
  IF GDK_IS_MACOS_SURFACE(s)
    THEN <<ShowCall(FALSE), BaseUnrealize>>
    ELSE <<BaseUnrealize>>

\* ---- initial state: a constructed, unrealized widget --------------------
WInit ==
  /\ close \in BOOLEAN /\ minimize \in BOOLEAN /\ maximize \in BOOLEAN
  /\ ctor = <<close, minimize, maximize>>
  /\ surface \in SurfaceKinds
  /\ realized = FALSE
  /\ height = 0
  /\ controlsShown = FALSE
  /\ calls = <<>>
  /\ ops = <<>>
  /\ mark = 0
  /\ out = <<"none">>

\* ---- actions ------------------------------------------------------------
gtk_window_buttons_quartz_realize(granted) ==
  /\ ~realized
  /\ (~GDK_IS_MACOS_SURFACE(surface) => ~granted)
  /\ Len(ops) < MaxOps
  /\ realized' = TRUE
  /\ calls' = calls \o <<BaseRealize>> \o realize_surface_calls(surface, granted)
  /\ controlsShown' = IF GDK_IS_MACOS_SURFACE(surface)
                        THEN show_window_controls(TRUE, granted)
                        ELSE controlsShown
  /\ ops' = Append(ops, <<"realize", granted>>)
  /\ mark' = Len(calls)
  /\ UNCHANGED <<close, minimize, maximize, ctor, surface, height, out, dvars>>

gtk_window_buttons_quartz_unrealize ==
  /\ realized
  /\ Len(ops) < MaxOps
  /\ calls' = calls \o unrealize_calls(surface)
  /\ controlsShown' =
       IF \E i \in DOMAIN unrealize_calls(surface) :
             unrealize_calls(surface)[i] = ShowCall(FALSE)
         THEN show_window_controls(FALSE, FALSE)
         ELSE controlsShown
  /\ realized' = FALSE
  /\ ops' = Append(ops, <<"unrealize">>)
  /\ mark' = Len(calls)
  /\ UNCHANGED <<close, minimize, maximize, ctor, surface, height, out, dvars>>

gtk_window_buttons_quartz_size_allocate(h) ==
  /\ Len(ops) < MaxOps
  /\ height' = h
  /\ calls' = calls \o <<BaseSizeAllocate(h)>>
                    \o update_native_window_buttons_height(surface, h)
  /\ ops' = Append(ops, <<"size_allocate", h>>)
  /\ mark' = Len(calls)
  /\ UNCHANGED <<close, minimize, maximize, ctor, surface, realized,
                 controlsShown, out, dvars>>

gtk_window_buttons_quartz_measure(orientation) ==
  /\ out' = <<"measure", measure(orientation)>>
  /\ UNCHANGED <<close, minimize, maximize, ctor, surface, realized, height,
                 controlsShown, calls, ops, mark, dvars>>

gtk_window_buttons_quartz_get_property(prop) ==
  /\ out' = <<"value", prop, get_property(prop)>>
  /\ UNCHANGED <<close, minimize, maximize, ctor, surface, realized, height,
                 controlsShown, calls, ops, mark, dvars>>

\* g_object_set on the constructed widget: a construct-only property is
\* refused with a warning, set_property is not reached.
gtk_window_buttons_quartz_set_property(prop, v) ==
  /\ IF ParamConstructOnly(prop)
       THEN /\ out' = <<"refused", prop>>
            /\ UNCHANGED <<close, minimize, maximize>>
       ELSE /\ out' = <<"set", prop>>
            /\ close'    = set_property(prop, v)[1]
            /\ minimize' = set_property(prop, v)[2]
            /\ maximize' = set_property(prop, v)[3]
  /\ UNCHANGED <<ctor, surface, realized, height, controlsShown, calls, ops,
                 mark, dvars>>

WNext ==
  \/ \E granted \in BOOLEAN : gtk_window_buttons_quartz_realize(granted)
  \/ gtk_window_buttons_quartz_unrealize
  \/ \E h \in Heights : gtk_window_buttons_quartz_size_allocate(h)
  \/ \E o \in {"vertical", "horizontal"} : gtk_window_buttons_quartz_measure(o)
  \/ \E p \in Props : gtk_window_buttons_quartz_get_property(p)
  \/ \E p \in Props, v \in BOOLEAN : gtk_window_buttons_quartz_set_property(p, v)


\* ==== Lists/Settings demo =================================================
NULL == 0

\* ---- the value cell: GVariant text of an int32 key ----------------------
DigitChars == <<"0", "1", "2", "3", "4", "5", "6", "7", "8", "9">>

IsDigit(c) == \E d \in 1..10 : DigitChars[d] = c

DigitVal(c) == (CHOOSE d \in 1..10 : DigitChars[d] = c) - 1

RECURSIVE NumVal(_, _)
NumVal(s, base) ==
  IF s = <<>> THEN 0
  ELSE NumVal(SubSeq(s, 1, Len(s) - 1), base) * base + DigitVal(s[Len(s)])

\* a parsed variant: <<TRUE, n>>, or <<FALSE, 0>> for NULL with the error set
NoVariant == <<FALSE, 0>>

\* g_variant_parse (type, text, ...) for an int32 key: decimal digits, or
\* octal digits after a leading 0
g_variant_parse(t) ==
  IF t = <<>> \/ \E i \in DOMAIN t : ~IsDigit(t[i]) THEN NoVariant
  ELSE IF Len(t) > 1 /\ t[1] = "0"
    THEN IF \E i \in DOMAIN t : DigitVal(t[i]) > 7 THEN NoVariant
         ELSE <<TRUE, NumVal(t, 8)>>
  ELSE <<TRUE, NumVal(t, 10)>>

\* the range of the key's schema
KeyRange == 1..11

RangeCheckAcceptsAll(n) == TRUE

g_settings_schema_key_range_check(n) == n \in KeyRange

\* the "value" property of SettingsKey: the stored value printed
RECURSIVE g_variant_print(_)
g_variant_print(n) ==
  IF n < 10 THEN <<DigitChars[n + 1]>>
  ELSE g_variant_print(n \div 10) \o <<DigitChars[(n % 10) + 1]>>

\* texts the user leaves in the label
Texts == { <<>>, <<"7">>, <<"1", "1">>, <<"1", "7">>, <<"0", "1", "1">>,
           <<"0", "8">>, <<"1", "x">>, <<"x">> }

\* ---- the demo window ----------------------------------------------------
BuildAlways(w) == TRUE

\* do_listview_settings: if (window == NULL)
NeedsBuild(w) == w = NULL

\* g_object_add_weak_pointer: the location holds NULL once the object is gone
weak_pointer_notify(w) == NULL

\* ---- the search entry and the key list's filter -------------------------
\* the filter object current_filter points to, when it points to one
FILTER == 1

\* the selected item handed to the binding: no row, or a tree row
Rows == {NULL, 1}

\* texts of the search entry
SearchTexts == {"", "gtk"}

\* transform_settings_to_keys: <<current_filter, its search string>> after
\* the transform ran for `row`; a new GtkStringFilter has no search string
transform_filter(row) ==
  IF row = NULL THEN <<current_filter, filterSearch>>
  ELSE <<FILTER, "">>

DInit ==
  /\ window = NULL
  /\ live = {}
  /\ visible = {}
  /\ nbuilt = 0
  /\ ncalls = 0
  /\ ret = NULL
  /\ editing = FALSE
  /\ stored = 7
  /\ text = g_variant_print(stored)
  /\ nchanged = 0
  /\ bells = 0
  /\ setCalls = <<>>
  /\ entryText = ""
  /\ current_filter = NULL
  /\ filterSearch = ""

do_listview_settings ==
  /\ ncalls < MaxCalls
  /\ ncalls' = ncalls + 1
  /\ LET build == NeedsBuild(window)
         w     == IF build THEN nbuilt + 1 ELSE window
         live1 == IF build THEN live \cup {w} ELSE live
     IN /\ nbuilt' = IF build THEN nbuilt + 1 ELSE nbuilt
        /\ IF w \notin visible
             THEN \* gtk_widget_set_visible (window, TRUE)
                  /\ visible' = visible \cup {w}
                  /\ live' = live1
                  /\ window' = w
             ELSE \* gtk_window_destroy (GTK_WINDOW (window))
                  /\ visible' = visible \ {w}
                  /\ live' = live1 \ {w}
                  /\ window' = weak_pointer_notify(w)
        /\ ret' = window'
        /\ IF build
             THEN \* a new search entry; the binding is G_BINDING_SYNC_CREATE
                  /\ entryText' = ""
                  /\ \E row \in Rows :
                        /\ current_filter' = transform_filter(row)[1]
                        /\ filterSearch' = transform_filter(row)[2]
             ELSE UNCHANGED searchvars
  /\ UNCHANGED <<cellvars, wvars>>

\* the window is hidden from outside the demo
window_hidden ==
  /\ window # NULL /\ window \in visible
  /\ visible' = visible \ {window}
  /\ UNCHANGED <<window, live, nbuilt, ncalls, ret, cellvars, searchvars, wvars>>

\* the window is destroyed from outside the demo (the user closes it)
window_destroyed ==
  /\ window # NULL /\ window \in live
  /\ live' = live \ {window}
  /\ visible' = visible \ {window}
  /\ window' = weak_pointer_notify(window)
  /\ UNCHANGED <<nbuilt, ncalls, ret, cellvars, searchvars, wvars>>

\* the user starts editing the value cell
label_start_editing ==
  /\ window # NULL /\ ~editing
  /\ editing' = TRUE
  /\ UNCHANGED <<text, stored, nchanged, bells, setCalls, winvars,
                 searchvars, wvars>>

\* the user leaves text t in the value cell
label_set_text(t) ==
  /\ window # NULL /\ editing
  /\ text' = t
  /\ UNCHANGED <<editing, stored, nchanged, bells, setCalls, winvars,
                 searchvars, wvars>>

\* the edit ends
label_stop_editing ==
  /\ window # NULL /\ editing
  /\ editing' = FALSE
  /\ UNCHANGED <<text, stored, nchanged, bells, setCalls, winvars,
                 searchvars, wvars>>

item_value_changed ==
  /\ window # NULL
  /\ nchanged < MaxChanges
  /\ nchanged' = nchanged + 1
  /\ IF editing
       THEN UNCHANGED <<text, stored, bells, setCalls>>
       ELSE LET variant == g_variant_parse(text)
            IN IF ~variant[1] \/ ~g_settings_schema_key_range_check(variant[2])
                 THEN \* revert:
                      /\ bells' = bells + 1
                      /\ text' = g_variant_print(stored)
                      /\ UNCHANGED <<stored, setCalls>>
                 ELSE /\ setCalls' = Append(setCalls, variant[2])
                      /\ stored' = variant[2]
                      /\ UNCHANGED <<text, bells>>
  /\ UNCHANGED <<editing, winvars, searchvars, wvars>>

\* the selection of the tree changed to `row`
transform_settings_to_keys(row) ==
  /\ window # NULL
  /\ current_filter' = transform_filter(row)[1]
  /\ filterSearch' = transform_filter(row)[2]
  /\ UNCHANGED <<entryText, winvars, cellvars, wvars>>

\* the search bar was switched: the entry is emptied, and a GtkSearchEntry
\* whose text became empty emits search-changed at once
search_enabled ==
  /\ window # NULL
  /\ entryText' = ""
  /\ filterSearch' = IF current_filter # NULL /\ entryText # ""
                       THEN "" ELSE filterSearch
  /\ UNCHANGED <<current_filter, winvars, cellvars, wvars>>

\* search-changed, the entry holding text t
search_changed(t) ==
  /\ window # NULL
  /\ entryText' = t
  /\ filterSearch' = IF current_filter # NULL THEN t ELSE filterSearch
  /\ UNCHANGED <<current_filter, winvars, cellvars, wvars>>

stop_search ==
  /\ window # NULL
  /\ entryText' = ""
  /\ filterSearch' = IF current_filter # NULL THEN "" ELSE filterSearch
  /\ UNCHANGED <<current_filter, winvars, cellvars, wvars>>

DNext ==
  \/ do_listview_settings
  \/ window_hidden
  \/ window_destroyed
  \/ label_start_editing
  \/ \E t \in Texts : label_set_text(t)
  \/ label_stop_editing
  \/ item_value_changed
  \/ \E row \in Rows : transform_settings_to_keys(row)
  \/ search_enabled
  \/ \E t \in SearchTexts : search_changed(t)
  \/ stop_search

\* ==== specifications ======================================================
\* the demo at rest, while the widget runs
DIdle == DInit

\* the widget at rest, while the demo runs
WIdle ==
  /\ WInit
  /\ close /\ minimize /\ maximize
  /\ surface = "macos"

Init == WInit /\ DIdle
Next == WNext
Spec == Init /\ [][Next]_vars

DemoInit == DInit /\ WIdle
DemoNext == DNext
DemoSpec == DemoInit /\ [][DemoNext]_vars

\* ---- helpers for the properties ------------------------------------------
IsSurfaceCall(c) == c[1] \in SurfaceCallNames
SurfaceOnly(s) == SelectSeq(s, IsSurfaceCall)
IsShowCall(c) == c[1] = "showWindowControls"
ShowCalls == SelectSeq(calls, IsShowCall)
LastOp == ops[Len(ops)]
LastCalls == SubSeq(calls, mark + 1, Len(calls))
RealizeIdx == {i \in DOMAIN ops : ops[i][1] = "realize"}
LastRealize == ops[CHOOSE i \in RealizeIdx : \A j \in RealizeIdx : j <= i]
PropIndex(prop) ==
  CASE prop = "close" -> 1 [] prop = "minimize" -> 2 [] prop = "maximize" -> 3
CtorEnable == EnableCall(ctor[1], ctor[2], ctor[3])

\* C1: realize (compatible surface, show granted), size-allocate 30,
\* size-allocate 50, unrealize produces exactly the surface calls
\* showWindowControls(true), enableWindowControls(close, minimize, maximize),
\* setWindowControlsHeight(30), setWindowControlsHeight(50),
\* showWindowControls(false).
C1_SequenceTest ==
  ( /\ GDK_IS_MACOS_SURFACE(surface)
    /\ ops = << <<"realize", TRUE>>, <<"size_allocate", 30>>,
                <<"size_allocate", 50>>, <<"unrealize">> >> )
  => SurfaceOnly(calls) = << ShowCall(TRUE), CtorEnable, HeightCall(30),
                             HeightCall(50), ShowCall(FALSE) >>

C1_Witness ==
  /\ GDK_IS_MACOS_SURFACE(surface)
  /\ ctor = <<TRUE, TRUE, FALSE>>
  /\ ops = << <<"realize", TRUE>>, <<"size_allocate", 30>>,
              <<"size_allocate", 50>>, <<"unrealize">> >>

\* C2: a realize on a compatible surface calls showWindowControls(true)
\* exactly once, then enableWindowControls exactly once with the three
\* construction-time flags in the order close, minimize, maximize when the
\* show call returned true, and not at all when it returned false.
C2_RealizeCompatible ==
  (ops # <<>> /\ LastOp[1] = "realize" /\ GDK_IS_MACOS_SURFACE(surface))
  => SurfaceOnly(LastCalls) =
       <<ShowCall(TRUE)>> \o (IF LastOp[2] THEN <<CtorEnable>> ELSE <<>>)

C2_Witness ==
  /\ ops # <<>> /\ LastOp = <<"realize", TRUE>>
  /\ GDK_IS_MACOS_SURFACE(surface)
  /\ ctor = <<FALSE, TRUE, FALSE>>
  /\ Len(calls) = mark + 3

\* C3: a realize on a surface that is not a macOS surface makes no surface
\* call at all and leaves the surface state as it was.
C3_RealizeIncompatible ==
  [][ (~realized /\ realized' /\ ~GDK_IS_MACOS_SURFACE(surface))
      => /\ SurfaceOnly(calls') = SurfaceOnly(calls)
         /\ calls' = Append(calls, BaseRealize)
         /\ controlsShown' = controlsShown ]_vars

C3_Witness ==
  /\ ops # <<>> /\ LastOp[1] = "realize"
  /\ ~GDK_IS_MACOS_SURFACE(surface)
  /\ realized

\* C4: an unrealize on a compatible surface calls showWindowControls(false)
\* exactly once, whether or not the preceding show request was granted, and
\* does so before the base class's unrealize.
C4_UnrealizeHides ==
  (ops # <<>> /\ LastOp[1] = "unrealize" /\ GDK_IS_MACOS_SURFACE(surface))
  => LastCalls = <<ShowCall(FALSE), BaseUnrealize>>

C4_Witness ==
  /\ GDK_IS_MACOS_SURFACE(surface)
  /\ ops = << <<"realize", FALSE>>, <<"unrealize">> >>

\* C5 (as claimed): every size-allocate runs the base allocation first and
\* then, when the height h is positive, calls setWindowControlsHeight(h)
\* exactly once; when h is zero or less it does not call it.
C5_Original ==
  (ops # <<>> /\ LastOp[1] = "size_allocate")
  => /\ height = LastOp[2]
     /\ LastCalls = <<BaseSizeAllocate(height)>> \o
                    (IF height > 0 THEN <<HeightCall(height)>> ELSE <<>>)

\* C5 (amended): every size-allocate runs the base allocation first and
\* then, when the root surface is a macOS surface and the height h is
\* positive, calls setWindowControlsHeight(h) exactly once; otherwise it
\* does not call it.
C5_SizeAllocate ==
  (ops # <<>> /\ LastOp[1] = "size_allocate")
  => /\ height = LastOp[2]
     /\ LastCalls = <<BaseSizeAllocate(height)>> \o
                    (IF GDK_IS_MACOS_SURFACE(surface) /\ height > 0
                       THEN <<HeightCall(height)>> ELSE <<>>)

C5_Witness ==
  /\ ops # <<>> /\ LastOp = <<"size_allocate", 44>>
  /\ GDK_IS_MACOS_SURFACE(surface)
  /\ LastCalls = <<BaseSizeAllocate(44), HeightCall(44)>>
  /\ Len(ops) >= 2 /\ ops[Len(ops) - 1] = <<"size_allocate", 0>>
  /\ Len(calls) = mark + 2

\* the last realize took the fallback path
Fallback ==
  /\ RealizeIdx # {}
  /\ (~GDK_IS_MACOS_SURFACE(surface) \/ ~LastRealize[2])

\* C6 (as claimed): after a realize that took the fallback path, later
\* size-allocate and unrealize callbacks make no surface call.
C6_Original ==
  (Fallback /\ LastOp[1] \in {"size_allocate", "unrealize"})
  => SurfaceOnly(LastCalls) = <<>>

\* C6 (amended): after a realize on an unsupported surface, later
\* size-allocate and unrealize callbacks make no surface call; after a
\* realize whose show request was rejected by a compatible surface they
\* never call enableWindowControls, but a size-allocate with a positive
\* height still calls setWindowControlsHeight once and unrealize still
\* calls showWindowControls(false) once.
C6_FallbackCalls ==
  (Fallback /\ LastOp[1] \in {"size_allocate", "unrealize"})
  => SurfaceOnly(LastCalls) =
       IF ~GDK_IS_MACOS_SURFACE(surface) THEN <<>>
       ELSE IF LastOp[1] = "unrealize" THEN <<ShowCall(FALSE)>>
       ELSE IF LastOp[2] > 0 THEN <<HeightCall(LastOp[2])>>
       ELSE <<>>

C6_Witness ==
  /\ Fallback /\ GDK_IS_MACOS_SURFACE(surface)
  /\ Len(ops) = 3
  /\ ops[2] = <<"size_allocate", 30>> /\ ops[3] = <<"unrealize">>

\* C7: native controls are shown for this widget only while it is
\* realized: every showWindowControls(true) follows a base realize with no
\* base unrealize in between, the surface shows controls only while the
\* widget is realized, and once an unrealize has completed the last show
\* call made is showWindowControls(false).
C7_ScopedToRealized ==
  /\ controlsShown => realized
  /\ \A i \in DOMAIN calls :
        calls[i] = ShowCall(TRUE) =>
          \E j \in 1..(i - 1) :
             /\ calls[j] = BaseRealize
             /\ \A k \in (j + 1)..(i - 1) : calls[k] # BaseUnrealize
  /\ (~realized /\ ShowCalls # <<>>) =>
        ShowCalls[Len(ShowCalls)] = ShowCall(FALSE)
  /\ ( /\ ~realized /\ GDK_IS_MACOS_SURFACE(surface)
       /\ \E i \in DOMAIN ops : ops[i][1] = "unrealize" )
     => ShowCalls # <<>>

C7_Witness ==
  /\ ~realized /\ ~controlsShown
  /\ Len(ops) = 4
  /\ ops[1] = <<"realize", TRUE>> /\ ops[2] = <<"unrealize">>
  /\ ops[3] = <<"realize", FALSE>> /\ ops[4] = <<"unrealize">>

\* C8: in every reachable state the three properties read back exactly the
\* values given at construction: no lifecycle callback changes a flag and a
\* set after construction is refused.
C8_FlagsFixed ==
  /\ <<close, minimize, maximize>> = ctor
  /\ \A p \in Props : get_property(p) = ctor[PropIndex(p)]
  /\ out[1] = "value" => out[3] = ctor[PropIndex(out[2])]
  /\ out[1] # "set"

C8_Witness ==
  /\ out = <<"value", "minimize", FALSE>>
  /\ ctor = <<TRUE, FALSE, TRUE>>
  /\ Len(ops) >= 3 /\ LastOp[1] = "unrealize"

\* C9: at most one demo window exists at a time, and each call of
\* do_listview_settings does one of three things: with no window it builds
\* one and shows it; with a hidden window it makes that window visible;
\* with a visible window it destroys it and the tracked pointer is cleared,
\* so that the next call builds a fresh window.
C9_SingleWindow ==
  /\ [](/\ Cardinality(live) <= 1
        /\ window # NULL => live = {window}
        /\ window = NULL => live = {})
  /\ [][ ncalls' = ncalls + 1 =>
         /\ window = NULL =>
              /\ window' # NULL /\ window' \notin live
              /\ live' = {window'} /\ visible' = {window'}
         /\ (window # NULL /\ window \notin visible) =>
              /\ window' = window /\ live' = live
              /\ visible' = {window}
         /\ (window # NULL /\ window \in visible) =>
              /\ window' = NULL /\ live' = {} /\ visible' = {}
         /\ ret' = window' ]_vars

C9_Witness ==
  /\ ncalls = 3 /\ nbuilt = 2
  /\ window = 2 /\ live = {2} /\ visible = {2}

\* C10: item_value_changed writes a setting only for validated input: while
\* the label is being edited it changes nothing; when the text does not
\* parse, or parses to a value outside the key's range, it does not call
\* g_settings_set_value, leaves the stored setting alone, rings the error
\* bell and resets the text to the stored value; otherwise it calls
\* g_settings_set_value exactly once with the parsed value.
C10_ValidatedWrite ==
  /\ [](/\ stored \in KeyRange
        /\ \A i \in DOMAIN setCalls : setCalls[i] \in KeyRange)
  /\ [][ nchanged' = nchanged + 1 =>
         LET v     == g_variant_parse(text)
             valid == v[1] /\ v[2] \in KeyRange
         IN /\ editing => UNCHANGED <<text, stored, bells, setCalls>>
            /\ (~editing /\ ~valid) =>
                 /\ setCalls' = setCalls /\ stored' = stored
                 /\ bells' = bells + 1
                 /\ text' = g_variant_print(stored)
            /\ (~editing /\ valid) =>
                 /\ setCalls' = Append(setCalls, v[2])
                 /\ bells' = bells ]_vars

C10_Witness ==
  /\ bells = 1
  /\ setCalls = <<9>> /\ stored = 9
  /\ text = <<"0", "1", "1">>
  /\ nchanged = 2

\* C11: whenever a filter is applied to the key list, its search string is
\* the text of the search entry, whatever the interleaving of search-entry
\* changes and tree selection changes.
C11_FilterMatchesEntry ==
  (window # NULL /\ current_filter # NULL) => filterSearch = entryText

====
